---- MODULE Spec2Model ----
(***************************************************************************)
(* Model of logmap (src/logmap.go): an HTTP server with two routes, "/"    *)
(* (JSON) and "/chart" (HTML), both driven by the numeric pipeline         *)
(*     rate -> logisticMap -> frequencyTransform.                          *)
(*                                                                         *)
(* float64 is modelled as decimal fixed point: a finite value v is the     *)
(* integer v*Scale, rounded to nearest after every multiplication, and a   *)
(* result whose magnitude exceeds MaxMag overflows to +Inf / -Inf as an    *)
(* IEEE-754 double does beyond its range.  NaN and the infinities follow   *)
(* the IEEE rules (Inf*0 = NaN, Inf-Inf = NaN, NaN absorbs).  Signed zero  *)
(* is not distinguished.                                                   *)
(***************************************************************************)
EXTENDS Integers, Sequences, FiniteSets, TLC

\* ------------------------------------------------------------------ bounds
Digits == 3         \* decimal digits kept after the point
MaxMag == 200       \* largest finite magnitude; beyond it a result is infinite
NumReq == 2         \* requests in flight together in SpecConc

\* --------------------------------------------------------- program constants
Iterations == 100

\* faulty variant: another default
DefaultRateZero == "0"

DefaultRate == "3.5"

\* ------------------------------------------------------------ float64 model
Scale == 10 ^ Digits
MaxRep == MaxMag * Scale
PosInf == MaxRep + 1
NegInf == 0 - PosInf
NaN == MaxRep + 2
One == Scale

Abs(a) == IF a < 0 THEN 0 - a ELSE a
IsNaN(a) == a = NaN
IsInf(a) == a = PosInf \/ a = NegInf
IsFinite(a) == a >= 0 - MaxRep /\ a <= MaxRep
Sgn(a) == IF a < 0 THEN 0 - 1 ELSE IF a > 0 THEN 1 ELSE 0

\* the float64 of a signed magnitude: overflow gives an infinity
Saturate(s, m) == IF m > MaxRep THEN s * PosInf ELSE s * m

Neg(a) == IF IsNaN(a) THEN NaN ELSE 0 - a

Add(a, b) ==
    IF IsNaN(a) \/ IsNaN(b) THEN NaN
    ELSE IF IsInf(a) THEN (IF IsInf(b) /\ a # b THEN NaN ELSE a)
    ELSE IF IsInf(b) THEN b
    ELSE Saturate(Sgn(a + b), Abs(a + b))

Sub(a, b) == Add(a, Neg(b))

\* |a| * |b| / Scale rounded to nearest, for finite a and b, computed by
\* parts so that no intermediate product leaves the integer range
MulMag(m, n) ==
    (m \div Scale) * n + (m % Scale) * (n \div Scale)
        + ((m % Scale) * (n % Scale) + Scale \div 2) \div Scale

Mul(a, b) ==
    IF IsNaN(a) \/ IsNaN(b) THEN NaN
    ELSE IF IsInf(a) \/ IsInf(b)
         THEN (IF a = 0 \/ b = 0 THEN NaN ELSE Sgn(a) * Sgn(b) * PosInf)
    ELSE Saturate(Sgn(a) * Sgn(b), MulMag(Abs(a), Abs(b)))

\* the float64 n/10
Tenths(n) == (n * Scale) \div 10

Start == Tenths(1)

\* ------------------------------------------------------------- logisticMap
\* faulty variant: the growth form x = x + rate * x * (1 - x)
logisticStepGrowth(rate, x) == Add(x, Mul(Mul(rate, x), Sub(One, x)))

\* one pass of the loop body: x = rate * x * (1 - x); series[i] = x
logisticStep(rate, x) == Mul(Mul(rate, x), Sub(One, x))

Last(s) == s[Len(s)]

\* The loop "for i := 0; i < Iterations; i++" unrolled: Loop<n>(rate, x) is the
\* sequence of values the next n passes write, starting from the current x;
\* Then<n>(rate, s) is s followed by the n passes after it.
Loop1(rate, x) == <<logisticStep(rate, x)>>
Then1(rate, s) == s \o Loop1(rate, Last(s))
Loop2(rate, x) == Then1(rate, Loop1(rate, x))
Then2(rate, s) == s \o Loop2(rate, Last(s))
Loop4(rate, x) == Then2(rate, Loop2(rate, x))
Then4(rate, s) == s \o Loop4(rate, Last(s))
Loop8(rate, x) == Then4(rate, Loop4(rate, x))
Then8(rate, s) == s \o Loop8(rate, Last(s))
Loop16(rate, x) == Then8(rate, Loop8(rate, x))
Then16(rate, s) == s \o Loop16(rate, Last(s))
Loop32(rate, x) == Then16(rate, Loop16(rate, x))
Then32(rate, s) == s \o Loop32(rate, Last(s))
Loop64(rate, x) == Then32(rate, Loop32(rate, x))

\* faulty variant: series[i] written before x is advanced: the seed is emitted
logisticMapSeedFirst(rate) ==
    <<Start>> \o SubSeq(Then4(rate, Then32(rate, Loop64(rate, Start))), 1, Iterations - 1)

\* Iterations = 64 + 32 + 4 passes from x = Start
logisticMap(rate) == Then4(rate, Then32(rate, Loop64(rate, Start)))

\* ------------------------------------------------- cmplx.Rect and fft.FFT
\* 1000 * cos(2*pi*m/100), m = 0..99
CosTab ==
  << 1000, 998, 992, 982, 969, 951, 930, 905, 876, 844,
     809, 771, 729, 685, 637, 588, 536, 482, 426, 368,
     309, 249, 187, 125, 63, 0, -63, -125, -187, -249,
     -309, -368, -426, -482, -536, -588, -637, -685, -729, -771,
     -809, -844, -876, -905, -930, -951, -969, -982, -992, -998,
     -1000, -998, -992, -982, -969, -951, -930, -905, -876, -844,
     -809, -771, -729, -685, -637, -588, -536, -482, -426, -368,
     -309, -249, -187, -125, -63, 0, 63, 125, 187, 249,
     309, 368, 426, 482, 536, 588, 637, 685, 729, 771,
     809, 844, 876, 905, 930, 951, 969, 982, 992, 998 >>

Cos(m) == (CosTab[(m % 100) + 1] * Scale) \div 1000
Sin(m) == Cos(m + 75)

\* cmplx.Rect(r, theta) at theta = 0: complex(r * cos 0, r * sin 0)
Rect0(r) == [re |-> Mul(r, Cos(0)), im |-> Mul(r, Sin(0))]

CAdd(a, b) == [re |-> Add(a.re, b.re), im |-> Add(a.im, b.im)]

\* a * exp(-2 pi i m / 100)
Twiddle(a, m) ==
    [re |-> Add(Mul(a.re, Cos(m)), Mul(a.im, Sin(m))),
     im |-> Sub(Mul(a.im, Cos(m)), Mul(a.re, Sin(m)))]

\* Sum<n>(input, k, j): the n terms input[j..j+n-1] of coefficient k
Sum1(input, k, j) == Twiddle(input[j], (j - 1) * k)
Sum2(input, k, j) == CAdd(Sum1(input, k, j), Sum1(input, k, j + 1))
Sum4(input, k, j) == CAdd(Sum2(input, k, j), Sum2(input, k, j + 2))
Sum8(input, k, j) == CAdd(Sum4(input, k, j), Sum4(input, k, j + 4))
Sum16(input, k, j) == CAdd(Sum8(input, k, j), Sum8(input, k, j + 8))
Sum32(input, k, j) == CAdd(Sum16(input, k, j), Sum16(input, k, j + 16))
Sum64(input, k, j) == CAdd(Sum32(input, k, j), Sum32(input, k, j + 32))

\* coefficient k of the transform: sum over all 100 inputs
Coefficient(input, k) ==
    CAdd(CAdd(Sum64(input, k, 1), Sum32(input, k, 65)), Sum4(input, k, 97))

\* fft.FFT: forward transform, no normalisation, natural bin order.
FFT(input) == [k \in 1..Iterations |-> Coefficient(input, k - 1)]

Real(c) == c.re

\* the complex input the transform is given
complexInput(series) == [i \in 1..Iterations |-> Rect0(series[i])]

frequencyOutput(frequencies) == [i \in 1..Iterations |-> Real(frequencies[i])]

frequencyTransform(series) == frequencyOutput(FFT(complexInput(series)))


\* ------------------------------------------------------ strconv.ParseFloat
\* the literals the model sends, and what the parser makes of them
ParseFloat(s) ==
    CASE s = "3.5" -> [val |-> Tenths(35), err |-> FALSE]
      [] s = "0"   -> [val |-> 0, err |-> FALSE]
      [] s = "5"   -> [val |-> Tenths(50), err |-> FALSE]
      [] OTHER     -> [val |-> 0, err |-> TRUE]      \* "abc", "": syntax error

Literals == {"", "abc", "3.5", "0", "5"}

\* r.URL.Query()["rate"]: the values of the rate parameter, none when absent
Queries == {<<>>} \cup {<<s>> : s \in Literals}

\* url.Values.Get: the first value, "" when there is none
QueryGet(query) == IF query = <<>> THEN "" ELSE query[1]

\* faulty variant: a rate that does not parse falls back to the default
getRateLenient(query) ==
    LET rateParam == QueryGet(query)
        parsed == ParseFloat(IF rateParam = "" THEN DefaultRate ELSE rateParam)
    IN IF parsed.err THEN ParseFloat(DefaultRate) ELSE parsed

getRate(query) ==
    LET rateParam == QueryGet(query)
    IN ParseFloat(IF rateParam = "" THEN DefaultRate ELSE rateParam)

RateValues == {ParseFloat(s).val : s \in {t \in Literals : ~ParseFloat(t).err}}

\* the series the accepted rates give, each with its transform
TransformTable ==
    {<<series, frequencyTransform(series)>> : series \in {logisticMap(r) : r \in RateValues}}

\* frequencyTransform(series), read from the table
Transformed(series) == (CHOOSE p \in TransformTable : p[1] = series)[2]

\* fmt.Sprintf("%.2f", v)
Sprintf2f(v) ==
    IF IsNaN(v) THEN [text |-> "NaN", neg |-> FALSE, whole |-> 0, cents |-> 0]
    ELSE IF IsInf(v) THEN [text |-> "Inf", neg |-> v < 0, whole |-> 0, cents |-> 0]
    ELSE LET h == (Abs(v) * 100 + Scale \div 2) \div Scale
         IN [text |-> "", neg |-> v < 0 /\ h > 0, whole |-> h \div 100, cents |-> h % 100]

\* ----------------------------------------------------- http.ResponseWriter
NewWriter ==
    [header |-> {}, wroteHeader |-> FALSE, status |-> 0, sent |-> {}, body |-> <<>>]

\* w.Header().Set(key, value)
HeaderSet(w, key, value) ==
    [w EXCEPT !.header = {h \in @ : h[1] # key} \cup {<<key, value>>}]

\* w.WriteHeader(code): the first call fixes the status and the headers sent;
\* a later call changes nothing
WriteHeader(w, code) ==
    IF w.wroteHeader THEN w
    ELSE [w EXCEPT !.wroteHeader = TRUE, !.status = code, !.sent = w.header]

\* w.Write(data): sends the header with status 200 if none was sent yet
Write(w, data) == [WriteHeader(w, 200) EXCEPT !.body = Append(@, data)]

\* the server ends the response when the handler returns
Finish(w) == WriteHeader(w, 200)

\* what the client receives
Response(w) == [status |-> w.status, header |-> w.sent, body |-> w.body]

\* ------------------------------------------------------------ json.Marshal
AllFinite(series) == \A n \in 1..Len(series) : IsFinite(series[n])

\* json.Marshal of struct{Time, Frequency [Iterations]float64}: a NaN or an
\* infinity is an UnsupportedValueError
Marshal(timeSeries, frequencySeries) ==
    IF AllFinite(timeSeries) /\ AllFinite(frequencySeries)
    THEN [err |-> FALSE,
          output |-> [time |-> timeSeries, frequency |-> frequencySeries]]
    ELSE [err |-> TRUE, output |-> <<>>]

\* ------------------------------------------------- chart.Render, template
timeStep == Scale \div Iterations
frequencyStep == (Scale \div 2) \div Iterations

\* chart.Render(chart.SVG, &buf) of a 400x300 chart of one continuous series
\* with XValues[i] = i * step: on success the SVG is appended to buf, on
\* failure an error is returned and buf is left as it was
Render(buf, step, yValues, ok) ==
    IF ok THEN Append(buf, [svg |-> yValues, xstep |-> step]) ELSE buf

\* the page template.html makes of context{Rate, Body}, in the pieces the
\* template engine writes
Page(ctx) == <<[part |-> "Rate", text |-> ctx.Rate],
               [part |-> "Body", html |-> ctx.Body]>>

TemplateOutcomes == {"ok", "early", "late"}

\* tmpl.Execute(w, ctx): "ok" writes the page; "early" fails before anything
\* is written; "late" fails after the first piece has been written to w
Execute(w, ctx, outcome) ==
    CASE outcome = "ok"    -> [w |-> Write(Write(w, Page(ctx)[1]), Page(ctx)[2]),
                               err |-> FALSE]
      [] outcome = "early" -> [w |-> w, err |-> TRUE]
      [] outcome = "late"  -> [w |-> Write(w, Page(ctx)[1]), err |-> TRUE]

\* ------------------------------------------------------------------- state
Slots == 1..NumReq
Methods == {"GET", "POST"}
Paths == {"/", "/chart"}

VARIABLES
    server,     \* the process: "init", "main", "listening" or "panicked"
    tmpl,       \* the package variable tmpl: "nil" or "parsed"
    live,       \* the connections this run serves
    req         \* per connection: the request, its handler's position and locals

vars == <<server, tmpl, live, req>>

Idle ==
    [pc |-> "idle", method |-> "", path |-> "", query |-> <<>>,
     w |-> NewWriter, rate |-> 0, timeSeries |-> <<>>, frequencySeries |-> <<>>,
     buf |-> <<>>, renders |-> <<>>, ctx |-> <<>>, outcome |-> "",
     stderr |-> <<>>]

\* the handler of connection i moves on, the others stay
Step(i, r) == req' = [req EXCEPT ![i] = r] /\ UNCHANGED <<server, tmpl, live>>

\* ----------------------------------------------------------- init and main
\* init(): template.ParseFiles("./template.html"), panic on error
InitTemplate ==
    /\ server = "init"
    /\ \E parsed \in BOOLEAN :
          IF parsed THEN tmpl' = "parsed" /\ server' = "main"
          ELSE tmpl' = tmpl /\ server' = "panicked"
    /\ UNCHANGED <<live, req>>

\* main(): both routes registered, http.ListenAndServe
Main ==
    /\ server = "main"
    /\ server' = "listening"
    /\ UNCHANGED <<tmpl, live, req>>

\* a request reaches the server
Arrive(i) ==
    /\ server = "listening"
    /\ i \in live
    /\ req[i].pc = "idle"
    /\ \E m \in Methods, p \in Paths, q \in Queries :
          Step(i, [Idle EXCEPT !.pc = "serve", !.method = m, !.path = p, !.query = q])

\* faulty variant: the rate is parsed, and rejected, before the method is looked at
ServeRateFirst(i) ==
    /\ req[i].pc = "serve"
    /\ IF getRate(req[i].query).err
       THEN Step(i, [req[i] EXCEPT !.w = WriteHeader(@, 400), !.pc = "done"])
       ELSE IF req[i].method = "GET"
       THEN Step(i, [req[i] EXCEPT !.pc = "handler"])
       ELSE Step(i, [req[i] EXCEPT
                !.w = WriteHeader(HeaderSet(@, "Allow", "GET"), 405),
                !.pc = "done"])

\* the closure registered for "/" and the one for "/chart": switch r.Method
Serve(i) ==
    /\ req[i].pc = "serve"
    /\ IF req[i].method = "GET"
       THEN Step(i, [req[i] EXCEPT !.pc = "handler"])
       ELSE Step(i, [req[i] EXCEPT
                !.w = WriteHeader(HeaderSet(@, "Allow", "GET"), 405),
                !.pc = "done"])

ContentType(path) == IF path = "/" THEN "application/json" ELSE "text/html"

\* faulty variant: the rate kept in a package variable that every handler reads
GetRateShared(i) ==
    /\ req[i].pc = "handler"
    /\ LET w1 == HeaderSet(req[i].w, "Content-Type", ContentType(req[i].path))
           r == getRate(req[i].query)
       IN IF r.err
          THEN Step(i, [req[i] EXCEPT !.w = WriteHeader(w1, 400), !.pc = "done"])
          ELSE /\ req' = [j \in Slots |->
                            IF j = i
                            THEN [req[i] EXCEPT !.w = w1, !.rate = r.val, !.pc = "rated"]
                            ELSE IF req[j].pc = "rated"
                            THEN [req[j] EXCEPT !.rate = r.val]
                            ELSE req[j]]
               /\ UNCHANGED <<server, tmpl, live>>

\* get and getChart up to the rate: Content-Type, getRate, 400 on error
GetRate(i) ==
    /\ req[i].pc = "handler"
    /\ LET w1 == HeaderSet(req[i].w, "Content-Type", ContentType(req[i].path))
           r == getRate(req[i].query)
       IN IF r.err
          THEN Step(i, [req[i] EXCEPT !.w = WriteHeader(w1, 400), !.pc = "done"])
          ELSE Step(i, [req[i] EXCEPT !.w = w1, !.rate = r.val, !.pc = "rated"])

\* timeSeries := logisticMap(rate)
LogisticMap(i) ==
    /\ req[i].pc = "rated"
    /\ Step(i, [req[i] EXCEPT !.timeSeries = logisticMap(req[i].rate),
                              !.pc = "mapped"])

\* frequencySeries := frequencyTransform(timeSeries)
FrequencyTransform(i) ==
    /\ req[i].pc = "mapped"
    /\ Step(i, [req[i] EXCEPT !.frequencySeries = Transformed(req[i].timeSeries),
                              !.pc = "transformed"])

\* get: json.Marshal, 500 and a line on stderr on error, else w.Write(output)
MarshalWrite(i) ==
    /\ req[i].pc = "transformed"
    /\ req[i].path = "/"
    /\ LET m == Marshal(req[i].timeSeries, req[i].frequencySeries)
       IN IF m.err
          THEN Step(i, [req[i] EXCEPT !.w = WriteHeader(@, 500),
                                      !.stderr = Append(@, "json"),
                                      !.pc = "done"])
          ELSE Step(i, [req[i] EXCEPT !.w = Finish(Write(@, m.output)),
                                      !.pc = "done"])

\* faulty variant: a failed render is answered with 500
RenderChartsChecked(i) ==
    /\ req[i].pc = "transformed"
    /\ req[i].path = "/chart"
    /\ \E ok1 \in BOOLEAN, ok2 \in BOOLEAN :
          LET b1 == Render(<<>>, timeStep, req[i].timeSeries, ok1)
              b2 == Render(b1, frequencyStep, req[i].frequencySeries, ok2)
          IN IF ok1 /\ ok2
             THEN Step(i, [req[i] EXCEPT !.buf = b2, !.renders = <<ok1, ok2>>,
                                         !.pc = "rendered"])
             ELSE Step(i, [req[i] EXCEPT !.buf = b2, !.renders = <<ok1, ok2>>,
                                         !.w = WriteHeader(@, 500),
                                         !.stderr = Append(@, "render"),
                                         !.pc = "done"])

\* getChart: both charts rendered into buf, the results of Render dropped
RenderCharts(i) ==
    /\ req[i].pc = "transformed"
    /\ req[i].path = "/chart"
    /\ \E ok1 \in BOOLEAN, ok2 \in BOOLEAN :
          LET b1 == Render(<<>>, timeStep, req[i].timeSeries, ok1)
              b2 == Render(b1, frequencyStep, req[i].frequencySeries, ok2)
          IN Step(i, [req[i] EXCEPT !.buf = b2, !.renders = <<ok1, ok2>>,
                                    !.pc = "rendered"])

\* getChart: tmpl.Execute(w, context{...}), 500 and a line on stderr on error
ExecuteTemplate(i) ==
    /\ req[i].pc = "rendered"
    /\ \E outcome \in TemplateOutcomes :
          LET ctx == [Body |-> req[i].buf, Rate |-> Sprintf2f(req[i].rate)]
              e == Execute(req[i].w, ctx, outcome)
          IN IF e.err
             THEN Step(i, [req[i] EXCEPT !.w = WriteHeader(e.w, 500),
                                         !.stderr = Append(@, "template"),
                                         !.ctx = ctx,
                                         !.outcome = outcome,
                                         !.pc = "done"])
             ELSE Step(i, [req[i] EXCEPT !.w = Finish(e.w),
                                         !.ctx = ctx,
                                         !.outcome = outcome,
                                         !.pc = "done"])

Init ==
    /\ server = "init"
    /\ tmpl = "nil"
    /\ live = {1}
    /\ req = [i \in Slots |-> Idle]

InitConc ==
    /\ server = "init"
    /\ tmpl = "nil"
    /\ live = Slots
    /\ req = [i \in Slots |-> Idle]

Next ==
    \/ InitTemplate
    \/ Main
    \/ \E i \in Slots : Arrive(i)
    \/ \E i \in Slots : Serve(i)
    \/ \E i \in Slots : GetRate(i)
    \/ \E i \in Slots : LogisticMap(i)
    \/ \E i \in Slots : FrequencyTransform(i)
    \/ \E i \in Slots : MarshalWrite(i)
    \/ \E i \in Slots : RenderCharts(i)
    \/ \E i \in Slots : ExecuteTemplate(i)

\* one request at a time
Spec == Init /\ [][Next]_vars

\* NumReq requests served concurrently
SpecConc == InitConc /\ [][Next]_vars

\* ------------------------------------------------------------------ claims
Done(i) == req[i].pc = "done"
Got(i) == Response(req[i].w)
RateGiven(i) == QueryGet(req[i].query)
Parseable(i) == ~ParseFloat(IF RateGiven(i) = "" THEN "3.5" ELSE RateGiven(i)).err
PipelineNotRun(i) == req[i].timeSeries = <<>> /\ req[i].frequencySeries = <<>>

\* C1 (as claimed): every GET / whose rate is absent or accepted by the float
\* parser is answered 200 application/json with a body whose time and frequency
\* arrays have 100 elements each, whatever the rate.
C1_AcceptedRateGivesArrays ==
    \A i \in Slots :
        (Done(i) /\ req[i].method = "GET" /\ req[i].path = "/" /\ Parseable(i))
        => /\ Got(i).status = 200
           /\ <<"Content-Type", "application/json">> \in Got(i).header
           /\ Len(Got(i).body) = 1
           /\ Len(Got(i).body[1].time) = 100
           /\ Len(Got(i).body[1].frequency) = 100

\* C2 (as claimed): a GET on either route whose rate parameter is present but
\* is not a valid floating-point literal is answered 400 with an empty body,
\* and neither logisticMap nor frequencyTransform runs for it.
C2_PresentInvalidRateIs400 ==
    \A i \in Slots :
        (req[i].method = "GET" /\ req[i].query # <<>>
            /\ ParseFloat(req[i].query[1]).err)
        => /\ PipelineNotRun(i)
           /\ Done(i) => (Got(i).status = 400 /\ Got(i).body = <<>>)

\* C2 (amended): a GET on either route whose rate value is non-empty and is
\* rejected by the float parser is answered 400 with an empty body, and
\* neither logisticMap nor frequencyTransform runs for it.
C2_RejectedRateIs400 ==
    \A i \in Slots :
        (req[i].method = "GET" /\ RateGiven(i) # "" /\ ParseFloat(RateGiven(i)).err)
        => /\ PipelineNotRun(i)
           /\ req[i].pc \in {"serve", "handler", "done"}
           /\ Done(i) => (Got(i).status = 400 /\ Got(i).body = <<>>)

C2_Witness ==
    \E i \in Slots : \E p \in Paths :
        /\ Done(i) /\ req[i].method = "GET" /\ req[i].path = p
        /\ req[i].query = <<"abc">> /\ Got(i).status = 400

\* C3: a request to / or /chart whose method is not GET is answered 405 with
\* Allow: GET and no body, whatever its rate parameter (an unparseable rate
\* included), and the numeric pipeline does not run for it.
C3_NonGetIs405 ==
    \A i \in Slots :
        (req[i].pc # "idle" /\ req[i].method # "GET")
        => /\ PipelineNotRun(i)
           /\ req[i].pc \in {"serve", "done"}
           /\ Done(i) => /\ Got(i).status = 405
                         /\ <<"Allow", "GET">> \in Got(i).header
                         /\ Got(i).body = <<>>

C3_Witness ==
    \E i \in Slots :
        /\ Done(i) /\ req[i].method = "POST" /\ req[i].query = <<"abc">>
        /\ Got(i).status = 405

\* the choices the libraries made while a request was served
SameChoices(i, j) ==
    req[i].renders = req[j].renders /\ req[i].outcome = req[j].outcome

\* C4: without a rate parameter getRate gives 3.5 and no error, so on either
\* route the response to a request without rate is the response to the same
\* request with rate=3.5.
C4_AbsentRateIsDefault ==
    /\ \A i \in Slots :
          (req[i].query = <<>> /\ req[i].pc \in {"rated", "mapped", "transformed", "rendered"})
          => req[i].rate = Tenths(35)
    /\ \A i \in Slots :
          (Done(i) /\ req[i].method = "GET" /\ req[i].query = <<>>)
          => Got(i).status # 400
    /\ \A i, j \in Slots :
          (/\ Done(i) /\ Done(j)
           /\ req[i].method = req[j].method /\ req[i].path = req[j].path
           /\ req[i].query = <<>> /\ req[j].query = <<"3.5">>
           /\ SameChoices(i, j))
          => Got(i) = Got(j)

C4_Witness ==
    \E i, j \in Slots :
        /\ Done(i) /\ Done(j) /\ req[i].method = "GET" /\ req[j].method = "GET"
        /\ req[i].path = "/" /\ req[j].path = "/"
        /\ req[i].query = <<>> /\ req[j].query = <<"3.5">>
        /\ Got(i).status = 200 /\ Got(i) = Got(j)

\* C5 (as claimed): on GET /chart with a parseable rate, whenever execution of
\* the template fails the client receives status 500 and the error is written
\* to the diagnostic stream, at whatever point of the page the failure occurs.
C5_TemplateFailureIs500 ==
    \A i \in Slots :
        (Done(i) /\ req[i].outcome \in {"early", "late"})
        => (Got(i).status = 500 /\ req[i].stderr # <<>>)

\* C6: logisticMap(r) is s[0..99] with s[n] = x(n+1), x(0) = 0.1 and
\* x(n+1) = r * x(n) * (1 - x(n)): the first element is r*0.1*0.9, each later
\* element is one step of the recurrence from the element before it, and the
\* seed is not emitted (s[0] is iterate 1, s[99] is iterate 100).
C6_SeriesIsRecurrence ==
    \A i \in Slots :
        req[i].timeSeries # <<>>
        => LET r == req[i].rate
               s == req[i].timeSeries
           IN /\ Len(s) = 100
              /\ s[1] = Mul(Mul(r, Tenths(1)), Tenths(9))
              /\ \A n \in 1..99 : s[n + 1] = Mul(Mul(r, s[n]), Sub(One, s[n]))

C6_Witness ==
    \E i \in Slots :
        /\ req[i].rate = Tenths(35) /\ Len(req[i].timeSeries) = 100
        /\ req[i].timeSeries[1] = (315 * Scale) \div 1000
        /\ req[i].timeSeries[1] # Tenths(1)

\* C7: for rate = 0 every one of the 100 values of the time series is zero.
C7_RateZeroAllZero ==
    \A i \in Slots :
        (req[i].timeSeries # <<>> /\ req[i].query = <<"0">>)
        => /\ Len(req[i].timeSeries) = 100
           /\ \A n \in 1..100 : req[i].timeSeries[n] = 0

C7_Witness ==
    \E i \in Slots :
        /\ req[i].query = <<"0">> /\ req[i].rate = 0
        /\ Len(req[i].timeSeries) = 100 /\ req[i].timeSeries[100] = 0

\* the response a request gets when it is the only one served
Solo(r) ==
    IF r.method # "GET"
    THEN Response(WriteHeader(HeaderSet(NewWriter, "Allow", "GET"), 405))
    ELSE LET w1 == HeaderSet(NewWriter, "Content-Type", ContentType(r.path))
             rt == getRate(r.query)
             ts == logisticMap(rt.val)
             fs == Transformed(ts)
         IN IF rt.err THEN Response(WriteHeader(w1, 400))
            ELSE IF r.path = "/"
            THEN (IF Marshal(ts, fs).err THEN Response(WriteHeader(w1, 500))
                  ELSE Response(Write(w1, Marshal(ts, fs).output)))
            ELSE LET b == Render(Render(<<>>, timeStep, ts, r.renders[1]),
                                 frequencyStep, fs, r.renders[2])
                     e == Execute(w1, [Body |-> b, Rate |-> Sprintf2f(rt.val)],
                                  r.outcome)
                 IN Response(WriteHeader(e.w, IF e.err THEN 500 ELSE 200))

\* C8: the handlers share no mutable state. Under every interleaving of
\* concurrent requests (those ending in 400, 405 or 500 included) a request's
\* response is the one it would get alone; a step of one handler changes
\* nothing of another request; and tmpl is written once, before the server
\* listens, never by a handler.
C8_RequestsIndependent ==
    /\ [](\A i \in Slots : Done(i) => Got(i) = Solo(req[i]))
    /\ [](\A i \in Slots : req[i].pc # "idle" => tmpl = "parsed")
    /\ [][/\ \A i, j \in Slots : (i # j /\ req'[i] # req[i]) => req'[j] = req[j]
          /\ tmpl' # tmpl => (tmpl = "nil" /\ server = "init")]_vars

C8_Witness ==
    \E i, j \in Slots :
        /\ i # j /\ Done(i) /\ Got(i).status = 500
        /\ req[j].pc = "transformed" /\ req[j].rate # req[i].rate
        /\ req[j].path = "/chart"

\* sum over the 100 inputs of series[j] * cos(2 pi (j-1) k / 100)
RealTerm(series, k, j) == Mul(series[j], Cos((j - 1) * k))
RealSum2(series, k, j) == Add(RealTerm(series, k, j), RealTerm(series, k, j + 1))
RealSum4(series, k, j) == Add(RealSum2(series, k, j), RealSum2(series, k, j + 2))
RealSum8(series, k, j) == Add(RealSum4(series, k, j), RealSum4(series, k, j + 4))
RealSum16(series, k, j) == Add(RealSum8(series, k, j), RealSum8(series, k, j + 8))
RealSum32(series, k, j) == Add(RealSum16(series, k, j), RealSum16(series, k, j + 16))
RealSum64(series, k, j) == Add(RealSum32(series, k, j), RealSum32(series, k, j + 32))
RealDFT(series, k) ==
    Add(Add(RealSum64(series, k, 1), RealSum32(series, k, 65)), RealSum4(series, k, 97))

\* C9 (as claimed): frequencyTransform builds a length-100 complex input whose
\* imaginary parts are all zero, transforms it forward without normalisation in
\* natural bin order, and returns the 100 real parts: element k is the real
\* part of coefficient k (element 0, where every cosine is 1, is the sum of the
\* input).
C9_TransformIsRealPartOfDFT ==
    \A i \in Slots :
        req[i].frequencySeries # <<>>
        => LET series == req[i].timeSeries
               input == complexInput(series)
           IN /\ Len(req[i].frequencySeries) = 100
              /\ \A j \in 1..100 : input[j].re = series[j] /\ input[j].im = 0
              /\ Cos(0) = One
              /\ \A k \in 1..100 :
                    req[i].frequencySeries[k] = RealDFT(series, k - 1)

\* how many of the renders succeeded
Rendered(renders) ==
    (IF renders[1] THEN 1 ELSE 0) + (IF renders[2] THEN 1 ELSE 0)

\* C10: getChart ignores the outcome of both Render calls: when a render
\* fails the template is still executed, with what the renders left in the
\* buffer, and the status is the one template execution alone determines (200
\* when the template succeeds), never a 500 caused by the render.
C10_RenderFailureIgnored ==
    \A i \in Slots :
        /\ req[i].pc = "rendered"
           => /\ ~req[i].w.wroteHeader
              /\ Len(req[i].buf) = Rendered(req[i].renders)
        /\ (Done(i) /\ req[i].renders # <<>>)
           => /\ req[i].outcome \in TemplateOutcomes
              /\ Got(i).status = (IF req[i].outcome = "early" THEN 500 ELSE 200)
              /\ req[i].ctx = [Body |-> req[i].buf, Rate |-> Sprintf2f(req[i].rate)]

C10_Witness ==
    \E i \in Slots :
        /\ Done(i) /\ req[i].renders = <<FALSE, TRUE>> /\ req[i].outcome = "ok"
        /\ Got(i).status = 200 /\ Len(req[i].ctx.Body) = 1
====
